---- MODULE Spec2Model ----
(***************************************************************************)
(* Model of streamlit_app.py (Payday Loan Dashboard): the Excel loader     *)
(* load_loan_data, the LoanCalculator class, the ROI/investment            *)
(* synchronizer and the top-level Streamlit script that selects a loan     *)
(* and displays its metrics.                                               *)
(*                                                                         *)
(* Numbers are exact rationals [t |-> "num", n, d] (d > 0, lowest terms);  *)
(* floating-point rounding is not modelled.  A raised Python exception is  *)
(* the value [t |-> "exc", name |-> ...].                                  *)
(*                                                                         *)
(* Spec     : the dashboard -- uploads, removals and Loan ID selections,   *)
(*            each a full run of the script.                               *)
(* SpecSync : the two linked number inputs and their on_change callbacks;  *)
(*            they touch st.session_state only, which the rest of the      *)
(*            script never reads.                                          *)
(* SpecCalc : the methods of LoanCalculator on any constructed object.     *)
(***************************************************************************)
EXTENDS Integers, Sequences, FiniteSets, TLC

VARIABLES
    loaded,            \* the script has run at least once in this session
    session_state,     \* st.session_state: a function from keys to values
    callback_error,    \* exception raised by the last on_change callback, or NoValue
    last_event,        \* the user interaction that triggered the last step
    uploaded_file,     \* value of the file_uploader widget (a workbook or NoValue)
    loan_data,         \* result of load_loan_data in the last run, or NoValue
    error_reports,     \* st.error messages shown by the last run
    selected_loan_id,  \* value of the "Select Loan ID:" selectbox
    calculator,        \* the LoanCalculator object of the last run, or NoValue
    metrics,           \* results of the calculator's methods
    display,           \* the loan details and chart written by the last run
    script_error       \* exception that escaped to the top level of the last run

vars == <<loaded, session_state, callback_error, last_event, uploaded_file,
          loan_data, error_reports, selected_loan_id, calculator, metrics,
          display, script_error>>

----------------------------------------------------------------------------
(* Bounds of the model *)

MaxRows == 2
MaxAmountUnits == 2
MaxInterestUnits == 3
MaxDurationUnits == 4
MaxInvestUnits == 8
MaxRoiUnits == 8

----------------------------------------------------------------------------
(* Values *)

NoValue == [t |-> "none"]
NaN == [t |-> "nan"]
Exc(name) == [t |-> "exc", name |-> name]
ZeroDivisionError == Exc("ZeroDivisionError")

\* the one element of a singleton set; The({F(x) : x \in {e}}) evaluates e once
The(S) == CHOOSE r \in S : TRUE

Abs(i) == IF i < 0 THEN -i ELSE i

RECURSIVE Gcd(_, _)
Gcd(a, b) == IF b = 0 THEN a ELSE The({Gcd(b, r) : r \in {a % b}})

Reduced(n, d, g) == [t |-> "num", n |-> n \div g, d |-> d \div g]

\* the rational n/d (d # 0) in lowest terms with a positive denominator
Rat(n, d) ==
    IF d < 0
    THEN The({Reduced(-n, -d, g) : g \in {Gcd(Abs(n), Abs(d))}})
    ELSE The({Reduced(n, d, g) : g \in {Gcd(Abs(n), Abs(d))}})

\* the integer i
Num(i) == [t |-> "num", n |-> i, d |-> 1]
IsNum(x) == x.t = "num"
IsExc(x) == x.t = "exc"

PyAdd(a, b) ==
    IF IsExc(a) THEN a ELSE IF IsExc(b) THEN b
    ELSE Rat(a.n * b.d + b.n * a.d, a.d * b.d)

PyMul(a, b) ==
    IF IsExc(a) THEN a ELSE IF IsExc(b) THEN b
    ELSE Rat(a.n * b.n, a.d * b.d)

\* Python's true division: a zero divisor raises
PyDiv(a, b) ==
    IF IsExc(a) THEN a ELSE IF IsExc(b) THEN b
    ELSE IF b.n = 0 THEN ZeroDivisionError
    ELSE Rat(a.n * b.d, a.d * b.n)

PyLess(a, b) == a.n * b.d < b.n * a.d

\* max(a, b): the first argument unless the second is strictly greater
PyMax(a, b) == IF IsExc(a) THEN a ELSE IF PyLess(a, b) THEN b ELSE a

----------------------------------------------------------------------------
(* class LoanCalculator *)

LoanCalculator(loan_amount, interest, late_fee, duration) ==
    [t |-> "calc", loan_amount |-> loan_amount, interest |-> interest,
     late_fee |-> late_fee, duration |-> duration]

total_repayment(self) ==
    PyAdd(PyAdd(self.loan_amount, self.interest), self.late_fee)

\* calculate_apr with the guard written as a conjunction
apr_guard_and(self) ==
    IF self.loan_amount.n = 0 /\ self.duration.n = 0
    THEN Num(0)
    ELSE LET daily_interest == PyDiv(self.interest, self.loan_amount)
         IN  PyMul(PyDiv(PyMul(daily_interest, Num(365)), self.duration), Num(100))

\* calculate_apr without the duration test
apr_unguarded_duration(self) ==
    IF self.loan_amount.n = 0
    THEN Num(0)
    ELSE LET daily_interest == PyDiv(self.interest, self.loan_amount)
         IN  PyMul(PyDiv(PyMul(daily_interest, Num(365)), self.duration), Num(100))

calculate_apr(self) ==
    IF self.loan_amount.n = 0 \/ self.duration.n = 0
    THEN Num(0)
    ELSE LET daily_interest == PyDiv(self.interest, self.loan_amount)
         IN  PyMul(PyDiv(PyMul(daily_interest, Num(365)), self.duration), Num(100))

\* the divisor of calculate_monthly_payment: max((self.duration / 30), 1)
monthly_divisor(self) == PyMax(PyDiv(self.duration, Num(30)), Num(1))

\* calculate_monthly_payment without the max(..., 1) floor
monthly_payment_no_floor(self) ==
    PyDiv(total_repayment(self), PyDiv(self.duration, Num(30)))

calculate_monthly_payment(self) ==
    PyDiv(total_repayment(self), monthly_divisor(self))

Unset == [t |-> "unset"]
NoMetrics == [total_repayment |-> Unset, apr |-> Unset, monthly_payment |-> Unset]

----------------------------------------------------------------------------
(* Spreadsheet cells and column labels *)

\* a text cell: the string as a sequence of tokens (" " is one blank)
Str(s) == [t |-> "str", s |-> s]
IsStr(x) == x.t = "str"
IsNull(x) == x.t = "nan"

RECURSIVE lstrip(_)
lstrip(s) == IF s # <<>> /\ Head(s) = " " THEN lstrip(Tail(s)) ELSE s

RECURSIVE rstrip(_)
rstrip(s) ==
    IF s # <<>> /\ s[Len(s)] = " " THEN rstrip(SubSeq(s, 1, Len(s) - 1)) ELSE s

\* str.strip()
strip(s) == rstrip(lstrip(s))

DigitSeq == <<"0", "1", "2", "3", "4", "5", "6", "7", "8", "9">>
IsDigit(c) == \E i \in 1..Len(DigitSeq) : DigitSeq[i] = c
DigitVal(c) == (CHOOSE i \in 1..Len(DigitSeq) : DigitSeq[i] = c) - 1

RECURSIVE ParseDigits(_, _)
ParseDigits(s, acc) ==
    IF s = <<>> THEN acc ELSE ParseDigits(Tail(s), 10 * acc + DigitVal(Head(s)))

\* pd.to_numeric(..., errors='coerce') on one cell: numbers stay, text that
\* spells a number is parsed, anything else becomes NaN
to_numeric(cell) ==
    IF IsNum(cell) THEN cell
    ELSE IF IsStr(cell) /\ cell.s # <<>> /\ \A i \in 1..Len(cell.s) : IsDigit(cell.s[i])
    THEN Num(ParseDigits(cell.s, 0))
    ELSE NaN

\* Index.str.strip(): labels that are not strings become NaN
StripLabel(label) == IF IsStr(label) THEN Str(strip(label.s)) ELSE NaN

Col(name) == Str(<<name>>)

required_columns ==
    <<Col("Loan ID"), Col("Loan Amount ($C)"), Col("Duration"), Col("Interest ($C)"),
      Col("Late Fee & Interest ($C)"), Col("Total Payment ($C)")>>

numeric_columns ==
    <<Col("Loan Amount ($C)"), Col("Interest ($C)"), Col("Late Fee & Interest ($C)"),
      Col("Total Payment ($C)"), Col("Duration")>>

SeqSet(s) == {s[i] : i \in 1..Len(s)}
RequiredLabels == SeqSet(required_columns)
NumericLabels == SeqSet(numeric_columns)
LoanId == Col("Loan ID")

\* the elements of a finite set of integers in increasing order
Ranked(S) ==
    [i \in 1..Cardinality(S) |-> CHOOSE x \in S : Cardinality({y \in S : y < x}) = i - 1]
SortedSeq(S) == The({Ranked(T) : T \in {S}})

\* positions of the columns labelled `label`, left to right
Positions(columns, label) ==
    SortedSeq({i \in 1..Len(columns) : columns[i] = label})

----------------------------------------------------------------------------
(* load_loan_data *)

DataFrame(columns, rows) == [t |-> "df", columns |-> columns, rows |-> rows]
IsFrame(x) == x.t = "df"

Return(value, errors) ==
    [kind |-> "return", value |-> value, errors |-> errors, exc |-> NoValue]
Raise(name) ==
    [kind |-> "raise", value |-> NoValue, errors |-> <<>>, exc |-> Exc(name)]

MsgNoSheet == "The uploaded file must contain a sheet named 'Loan Data'."
MsgColumns == "The 'Loan Data' sheet must contain all required columns."
MsgLoad == "Error loading data"

\* lines 18-21: the first row becomes the header and is dropped; the labels
\* are stripped
promote_header(grid) ==
    DataFrame([c \in 1..Len(grid[1]) |-> StripLabel(grid[1][c])], Tail(grid))

CoerceAt(df, cols) ==
    DataFrame(df.columns,
              [r \in 1..Len(df.rows) |->
                  [c \in 1..Len(df.columns) |->
                      IF c \in cols THEN to_numeric(df.rows[r][c]) ELSE df.rows[r][c]]])

\* the loop of lines 30-31: every column with a numeric label is coerced
coerce_numeric(df) ==
    The({CoerceAt(df, cols) :
            cols \in {{c \in 1..Len(df.columns) : df.columns[c] \in NumericLabels}}})

TakeRows(df, kept) == DataFrame(df.columns, [i \in 1..Len(kept) |-> df.rows[kept[i]]])

\* the rows of df with no NaN in the columns at positions cols
RowsWithout(df, cols) ==
    TakeRows(df, SortedSeq({r \in 1..Len(df.rows) :
                               \A c \in cols : ~IsNull(df.rows[r][c])}))

\* dropna that does not look at the late-fee column
dropna_ignoring_late_fee(df, subset) ==
    The({RowsWithout(df, cols) :
            cols \in {{c \in 1..Len(df.columns) :
                         /\ df.columns[c] \in SeqSet(subset)
                         /\ df.columns[c] # Col("Late Fee & Interest ($C)")}}})

\* DataFrame.dropna(subset=...): keep the rows with no NaN under any column
\* whose label is in subset
dropna(df, subset) ==
    The({RowsWithout(df, cols) :
            cols \in {{c \in 1..Len(df.columns) : df.columns[c] \in SeqSet(subset)}}})

TakeColumns(df, pos) ==
    DataFrame([i \in 1..Len(pos) |-> df.columns[pos[i]]],
              [r \in 1..Len(df.rows) |-> [i \in 1..Len(pos) |-> df.rows[r][pos[i]]]])

Unkeyed(sorted, n) == [i \in 1..Len(sorted) |-> sorted[i] % n]

\* the positions of the columns carrying labels[1], then labels[2], ...
LabelPositions(columns, labels) ==
    The({Unkeyed(sorted, Len(columns) + 1) :
            sorted \in {SortedSeq({q[1] * (Len(columns) + 1) + q[2] :
                q \in {p \in (1..Len(labels)) \X (1..Len(columns)) :
                          columns[p[2]] = labels[p[1]]}})}})

\* df[labels]: the columns carrying each label, in the order of labels
SelectColumns(df, labels) ==
    The({TakeColumns(df, pos) : pos \in {LabelPositions(df.columns, labels)}})

\* lines 33-36
drop_and_select(df) ==
    The({Return(SelectColumns(kept, required_columns), <<>>) :
            kept \in {dropna(df, required_columns)}})

\* lines 23-36: a numeric label held by two columns selects a DataFrame, which
\* pd.to_numeric rejects with a TypeError
check_and_clean(df) ==
    IF ~(RequiredLabels \subseteq SeqSet(df.columns))
    THEN Return(NoValue, <<MsgColumns>>)
    ELSE IF \E k \in 1..Len(numeric_columns) :
                Cardinality({c \in 1..Len(df.columns) : df.columns[c] = numeric_columns[k]}) > 1
    THEN Raise("TypeError")
    ELSE The({drop_and_select(coerced) : coerced \in {coerce_numeric(df)}})

\* the body of the try block, lines 10-36
load_try_body(file) ==
    IF ~file.readable THEN Raise("ValueError")
    ELSE IF "Loan Data" \notin file.sheet_names THEN Return(NoValue, <<MsgNoSheet>>)
    ELSE IF file.grid = <<>> THEN Raise("IndexError")
    ELSE IF \A c \in 1..Len(file.grid[1]) : ~IsStr(file.grid[1][c])
    THEN Raise("AttributeError")
    ELSE The({check_and_clean(df) : df \in {promote_header(file.grid)}})

Loaded(value, errors, escaped) ==
    [value |-> value, errors |-> errors, escaped |-> escaped]

\* an except clause that lets the exception through
handler_reraising(body) == Loaded(body.value, body.errors, body.exc)

\* lines 38-40: except Exception reports the error and returns None
except_handler(body) ==
    IF body.kind = "raise"
    THEN Loaded(NoValue, <<MsgLoad>>, NoValue)
    ELSE Loaded(body.value, body.errors, NoValue)

\* load_loan_data(file)
load_loan_data(file) == The({except_handler(body) : body \in {load_try_body(file)}})

----------------------------------------------------------------------------
(* Inputs: the workbooks a user may upload *)

\* grid is what excel_data.parse('Loan Data') returns: the rows below the
\* sheet's own first row; grid[1] is the row the loader promotes to header
Workbook(readable, sheet_names, grid) ==
    [t |-> "xlsx", readable |-> readable, sheet_names |-> sheet_names, grid |-> grid]

StdHeader ==
    <<Col("Loan ID"), Col("Loan Amount ($C)"), Col("Duration"), Col("Interest ($C)"),
      Col("Late Fee & Interest ($C)"), Col("Total Payment ($C)"), Col("Notes")>>

PaddedHeader ==
    <<Str(<<" ", "Loan ID">>), Str(<<"Loan Amount ($C)", " ">>),
      Str(<<" ", "Duration", " ", " ">>), Col("Interest ($C)"),
      Str(<<" ", " ", "Late Fee & Interest ($C)">>), Col("Total Payment ($C)"),
      Str(<<"Notes", " ">>)>>

ReorderedHeader ==
    <<Col("Loan ID"), Col("Total Payment ($C)"), Col("Late Fee & Interest ($C)"),
      Col("Interest ($C)"), Col("Duration"), Col("Loan Amount ($C)"), Col("Notes")>>

MissingColumnHeader == [StdHeader EXCEPT ![3] = Col("Term")]
DuplicateDurationHeader == [StdHeader EXCEPT ![7] = Str(<<"Duration", " ">>)]
DuplicateLoanIdHeader == [StdHeader EXCEPT ![7] = Col("Loan ID")]
NumericHeader == [c \in 1..7 |-> Num(c)]
NullLabelHeader == [StdHeader EXCEPT ![7] = NaN]

Headers ==
    {StdHeader, PaddedHeader, ReorderedHeader, MissingColumnHeader,
     DuplicateDurationHeader, DuplicateLoanIdHeader, NumericHeader, NullLabelHeader}

Note == Col("ok")
Text == Str(<<"n", "/", "a">>)

\* data rows, in the cell order of StdHeader
RowPaid == <<Col("A"), Num(500), Num(14), Num(75), Num(25), Num(600), Note>>
RowLong == <<Col("B"), Num(1000), Str(<<"6", "0">>), Num(50), Num(0), Num(1050), Note>>
RowZero == <<Col("A"), Num(0), Num(0), Num(10), Num(0), Num(10), Note>>
RowNoLateFee == <<Col("C"), Num(500), Num(14), Num(75), NaN, Num(575), Note>>
RowTextAmount == <<Col("B"), Text, Num(14), Num(75), Num(25), Num(600), Note>>
RowNoId == <<NaN, Num(500), Num(14), Num(75), Num(25), Num(600), Note>>
RowNoNote == <<Col("B"), Num(500), Num(14), Num(75), Num(25), Num(600), NaN>>

DataRows == {RowPaid, RowLong, RowZero, RowNoLateFee, RowTextAmount, RowNoId}
HeaderProbeRows == {RowPaid, RowNoNote}

SeqsUpTo(S, n) == UNION {[1..k -> S] : k \in 0..n}

Grids ==
    {<<>>}
    \cup {<<StdHeader>> \o rows : rows \in SeqsUpTo(DataRows, MaxRows)}
    \cup {<<h>> \o rows : h \in Headers, rows \in SeqsUpTo(HeaderProbeRows, MaxRows)}

Workbooks ==
    {Workbook(TRUE, {"Loan Data", "Summary"}, g) : g \in Grids}
    \cup {Workbook(TRUE, {"Sheet1"}, <<StdHeader, RowPaid>>),
          Workbook(FALSE, {}, <<>>)}

\* load_loan_data is a function of the file alone: its results, tabulated once
LoadResults == [file \in Workbooks |-> load_loan_data(file)]

Amounts == {500 * k : k \in -1..MaxAmountUnits}
Interests == {25 * k : k \in -1..MaxInterestUnits}
LateFees == {0, 25}
Durations == {15 * k : k \in -2..MaxDurationUnits} \cup {14}

Calculators ==
    {LoanCalculator(Num(a), Num(i), Num(f), Num(d)) :
        a \in Amounts, i \in Interests, f \in LateFees, d \in Durations}

InvestmentEdits == {Num(250 * k) : k \in 0..MaxInvestUnits}
RoiEdits == {Rat(5 * k, 2) : k \in 0..MaxRoiUnits}

----------------------------------------------------------------------------
(* sync_roi_and_investment *)

HasKey(ss, key) == key \in DOMAIN ss

\* lines 64-67: the defaults are stored only for keys not yet in the session
sync_defaults(ss) ==
    LET a == IF ~HasKey(ss, "initial_investment")
             THEN ss @@ ("initial_investment" :> Num(1000)) ELSE ss
    IN  IF ~HasKey(a, "roi_percentage") THEN a @@ ("roi_percentage" :> Num(5)) ELSE a

CallbackOk(ss) == [kind |-> "return", state |-> ss, exc |-> NoValue]
CallbackRaise(ss, name) == [kind |-> "raise", state |-> ss, exc |-> Exc(name)]

\* update_investment(), the on_change callback of the "ROI (%)" input
update_investment(ss) ==
    IF ~HasKey(ss, "investment_amount") THEN CallbackRaise(ss, "KeyError")
    ELSE LET v == PyMul(PyDiv(ss["roi_percentage"], Num(100)), ss["investment_amount"])
         IN  IF IsExc(v) THEN CallbackRaise(ss, v.name)
             ELSE CallbackOk([ss EXCEPT !["initial_investment"] = v])

\* update_roi(), the on_change callback of the "Initial Investment ($C)" input
update_roi(ss) ==
    IF ~HasKey(ss, "investment_amount") THEN CallbackRaise(ss, "KeyError")
    ELSE LET v == PyMul(PyDiv(ss["initial_investment"], ss["investment_amount"]), Num(100))
         IN  IF IsExc(v) THEN CallbackRaise(ss, v.name)
             ELSE CallbackOk([ss EXCEPT !["roi_percentage"] = v])

----------------------------------------------------------------------------
(* The top-level script, lines 94-143 *)

\* f"{x:.2f}": x rounded to hundredths (ties to even), as a count of hundredths
Format2(x) ==
    LET num == 200 * x.n + x.d
        den == 2 * x.d
        h == num \div den
    IN  IF num % den = 0 /\ h % 2 = 1 THEN h - 1 ELSE h

\* plot_apr_comparison(apr, loan_id): the bars, their labels and their texts
plot_apr_comparison(apr, loan_id) ==
    LET apr_values == <<apr, Num(30), Num(50), Num(100)>>
    IN  [apr_values |-> apr_values,
         labels |-> <<loan_id, Col("Competitor A"), Col("Competitor B"),
                      Col("Industry Average")>>,
         bar_text |-> [i \in 1..4 |-> Format2(apr_values[i])]]

\* the cell of `row` under the column labelled `label`
Cell(df, row, label) == row[Positions(df.columns, label)[1]]

\* loan_data['Loan ID'].unique(): the IDs in order of first appearance
ColumnAt(df, p) == [r \in 1..Len(df.rows) |-> df.rows[r][p]]
IdColumn(df) == The({ColumnAt(df, p) : p \in {Positions(df.columns, LoanId)[1]}})
FirstAppearances(ids) ==
    The({[i \in 1..Len(firsts) |-> ids[firsts[i]]] :
            firsts \in {SortedSeq({r \in 1..Len(ids) :
                                     \A q \in 1..(r - 1) : ids[q] # ids[r]})}})
loan_ids_of(df) == The({FirstAppearances(ids) : ids \in {IdColumn(df)}})

\* whether the run that produced `data` reached the selectbox of line 112
SelectboxRendered(data) ==
    IsFrame(data) /\ Len(Positions(data.columns, LoanId)) = 1

\* st.sidebar.selectbox("Select Loan ID:", loan_ids): the user's choice, else
\* the value kept from the last run when the options are the same, else the
\* first option (None when there is no option)
selectbox(options, prev_data, prev_selected, request) ==
    IF options = <<>> THEN NoValue
    ELSE IF request \in SeqSet(options) THEN request
    ELSE IF SelectboxRendered(prev_data) /\ loan_ids_of(prev_data) = options
            /\ prev_selected \in SeqSet(options)
    THEN prev_selected
    ELSE options[1]

Matches(ids, loan_id) == SortedSeq({r \in 1..Len(ids) : ids[r] = loan_id})
MatchingRows(df, loan_id) == The({Matches(ids, loan_id) : ids \in {IdColumn(df)}})

PickRow(df, m, i) ==
    IF m = <<>> THEN Exc("IndexError") ELSE [t |-> "row", cells |-> df.rows[m[i]]]

\* .iloc[-1] in place of .iloc[0]
last_match(df, loan_id) ==
    The({PickRow(df, m, Len(m)) : m \in {MatchingRows(df, loan_id)}})

\* loan_data[loan_data['Loan ID'] == selected_loan_id].iloc[0]
first_match(df, loan_id) ==
    The({PickRow(df, m, 1) : m \in {MatchingRows(df, loan_id)}})

NoChart == [t |-> "none"]
NoDetails == [t |-> "none"]
Page(table, details, chart, prompt) ==
    [table |-> table, details |-> details, chart |-> chart, prompt |-> prompt]

\* lines 129-137
Details(calc, m) ==
    [t |-> "details",
     loan_amount |-> Format2(calc.loan_amount), interest |-> Format2(calc.interest),
     late_fee |-> Format2(calc.late_fee), duration |-> calc.duration,
     total_repayment |-> Format2(m.total_repayment), apr |-> Format2(m.apr),
     monthly_payment |-> Format2(m.monthly_payment)]

Outcome(data, errors, selected, calc, m, page, exc) ==
    [loan_data |-> data, error_reports |-> errors, selected_loan_id |-> selected,
     calculator |-> calc, metrics |-> m, display |-> page, script_error |-> exc]

\* lines 125-127: the three method calls, stopping at the first that raises
StepApr(m, apr) == IF IsExc(m.raised) THEN m ELSE
    IF IsExc(apr) THEN [m EXCEPT !.raised = apr] ELSE [m EXCEPT !.apr = apr]
StepMonthly(m, monthly) == IF IsExc(m.raised) THEN m ELSE
    IF IsExc(monthly) THEN [m EXCEPT !.raised = monthly]
    ELSE [m EXCEPT !.monthly_payment = monthly]
StepTotal(total) ==
    IF IsExc(total)
    THEN [total_repayment |-> Unset, apr |-> Unset, monthly_payment |-> Unset,
          raised |-> total]
    ELSE [total_repayment |-> total, apr |-> Unset, monthly_payment |-> Unset,
          raised |-> NoValue]
calculate_metrics(calc) ==
    The({StepMonthly(m2, calculate_monthly_payment(calc)) :
        m2 \in {The({StepApr(m1, calculate_apr(calc)) :
            m1 \in {StepTotal(total_repayment(calc))}})}})

MetricsOf(m) ==
    [total_repayment |-> m.total_repayment, apr |-> m.apr,
     monthly_payment |-> m.monthly_payment]

\* lines 129-141
render(df, errors, selected, calc, m) ==
    IF IsExc(m.raised)
    THEN Outcome(df, errors, selected, calc, MetricsOf(m),
                 Page(df, NoDetails, NoChart, FALSE), m.raised)
    ELSE Outcome(df, errors, selected, calc, MetricsOf(m),
                 Page(df, Details(calc, m), plot_apr_comparison(m.apr, selected), FALSE),
                 NoValue)

\* line 120: pd.notnull(...) else 0.0
late_fee_or_default(fee) == IF ~IsNull(fee) THEN fee ELSE Num(0)

\* lines 118-124
calculator_for(df, row) ==
    LoanCalculator(Cell(df, row, Col("Loan Amount ($C)")),
                   Cell(df, row, Col("Interest ($C)")),
                   late_fee_or_default(Cell(df, row, Col("Late Fee & Interest ($C)"))),
                   Cell(df, row, Col("Duration")))

show_calculator(df, errors, selected, calc) ==
    The({render(df, errors, selected, calc, m) : m \in {calculate_metrics(calc)}})

\* lines 115-141
show_selected(df, errors, selected, found) ==
    IF IsExc(found)
    THEN Outcome(df, errors, selected, NoValue, NoMetrics,
                 Page(df, NoDetails, NoChart, FALSE), found)
    ELSE The({show_calculator(df, errors, selected, calc) :
                 calc \in {calculator_for(df, found.cells)}})

show_selection(df, errors, selected) ==
    The({show_selected(df, errors, selected, found) :
            found \in {first_match(df, selected)}})

\* lines 106-141, for a loaded DataFrame
show_loan(df, errors, prev_data, prev_selected, request) ==
    IF Len(Positions(df.columns, LoanId)) > 1
    THEN Outcome(df, errors, NoValue, NoValue, NoMetrics,
                 Page(df, NoDetails, NoChart, FALSE), Exc("AttributeError"))
    ELSE The({show_selection(df, errors, selected) :
                 selected \in {The({selectbox(options, prev_data, prev_selected, request) :
                                  options \in {loan_ids_of(df)}})}})

NoData(errors, prompt, exc) ==
    Outcome(NoValue, errors, NoValue, NoValue, NoMetrics,
            Page(NoValue, NoDetails, NoChart, prompt), exc)

after_load(load, prev_data, prev_selected, request) ==
    IF load.escaped # NoValue THEN NoData(load.errors, FALSE, load.escaped)
    ELSE IF load.value = NoValue THEN NoData(load.errors, FALSE, NoValue)
    ELSE show_loan(load.value, load.errors, prev_data, prev_selected, request)

\* lines 101-143: one run of the script body after the sidebar inputs
script_body(file, prev_data, prev_selected, request) ==
    IF file = NoValue
    THEN NoData(<<>>, TRUE, NoValue)
    ELSE The({after_load(load, prev_data, prev_selected, request) :
                 load \in {LoadResults[file]}})

----------------------------------------------------------------------------
(* Actions *)

EmptySession == [k \in {} |-> NoValue]

Init ==
    /\ loaded = FALSE
    /\ session_state = EmptySession
    /\ callback_error = NoValue
    /\ last_event = "none"
    /\ uploaded_file = NoValue
    /\ loan_data = NoValue
    /\ error_reports = <<>>
    /\ selected_loan_id = NoValue
    /\ calculator = NoValue
    /\ metrics = NoMetrics
    /\ display = Page(NoValue, NoDetails, NoChart, FALSE)
    /\ script_error = NoValue

\* one run of the whole script (lines 94-143) with the given widget values
RunScript(file, request) ==
    \E out \in {script_body(file, loan_data, selected_loan_id, request)} :
        /\ loaded' = TRUE
        /\ session_state' = sync_defaults(session_state)
        /\ uploaded_file' = file
        /\ loan_data' = out.loan_data
        /\ error_reports' = out.error_reports
        /\ selected_loan_id' = out.selected_loan_id
        /\ calculator' = out.calculator
        /\ metrics' = out.metrics
        /\ display' = out.display
        /\ script_error' = out.script_error

\* the browser opens the app: the first run, with no file
FirstLoad ==
    /\ ~loaded
    /\ RunScript(NoValue, NoValue)
    /\ callback_error' = NoValue
    /\ last_event' = "first_load"

\* the user uploads (or replaces) the Excel file
UploadFile ==
    /\ loaded
    /\ \E file \in Workbooks : RunScript(file, NoValue)
    /\ callback_error' = NoValue
    /\ last_event' = "upload"

\* the user removes the uploaded file
RemoveFile ==
    /\ loaded
    /\ uploaded_file # NoValue
    /\ RunScript(NoValue, NoValue)
    /\ callback_error' = NoValue
    /\ last_event' = "remove"

\* the user picks another Loan ID in the selectbox
SelectLoan ==
    /\ loaded
    /\ SelectboxRendered(loan_data)
    /\ \E id \in SeqSet(loan_ids_of(loan_data)) :
          /\ id # selected_loan_id
          /\ RunScript(uploaded_file, id)
    /\ callback_error' = NoValue
    /\ last_event' = "select"

Next == FirstLoad \/ UploadFile \/ RemoveFile \/ SelectLoan

Spec == Init /\ [][Next]_vars

\* A widget edit: Streamlit stores the new value under the widget's key and
\* calls its on_change callback.  The rerun that follows a returning callback
\* recomputes the page from the same file and selection, so only the session
\* state changes.
Edit(key, value, result) ==
    /\ loaded
    /\ session_state[key] # value
    /\ callback_error' = result.exc
    /\ session_state' = IF result.kind = "raise" THEN result.state
                        ELSE sync_defaults(result.state)
    /\ UNCHANGED <<loaded, uploaded_file, loan_data, error_reports, selected_loan_id,
                   calculator, metrics, display, script_error>>

\* the user edits "Initial Investment ($C)"
EditInitialInvestment ==
    /\ \E y \in InvestmentEdits :
          Edit("initial_investment", y,
               update_roi([session_state EXCEPT !["initial_investment"] = y]))
    /\ last_event' = "edit_initial_investment"

\* the user edits "ROI (%)"
EditRoiPercentage ==
    /\ \E x \in RoiEdits :
          Edit("roi_percentage", x,
               update_investment([session_state EXCEPT !["roi_percentage"] = x]))
    /\ last_event' = "edit_roi_percentage"

NextSync == FirstLoad \/ EditInitialInvestment \/ EditRoiPercentage

SpecSync == Init /\ [][NextSync]_vars

\* The calculator on its own: any object the constructor can build
InitCalc ==
    /\ loaded = FALSE
    /\ session_state = EmptySession
    /\ callback_error = NoValue
    /\ last_event = "none"
    /\ uploaded_file = NoValue
    /\ loan_data = NoValue
    /\ error_reports = <<>>
    /\ selected_loan_id = NoValue
    /\ calculator \in Calculators
    /\ metrics = NoMetrics
    /\ display = Page(NoValue, NoDetails, NoChart, FALSE)
    /\ script_error = NoValue

CalcUnchanged ==
    UNCHANGED <<loaded, session_state, callback_error, uploaded_file, loan_data,
                error_reports, selected_loan_id, calculator, display, script_error>>

CallTotalRepayment ==
    /\ metrics' = [metrics EXCEPT !.total_repayment = total_repayment(calculator)]
    /\ last_event' = "total_repayment"
    /\ CalcUnchanged

CallCalculateApr ==
    /\ metrics' = [metrics EXCEPT !.apr = calculate_apr(calculator)]
    /\ last_event' = "calculate_apr"
    /\ CalcUnchanged

CallCalculateMonthlyPayment ==
    /\ metrics' = [metrics EXCEPT !.monthly_payment = calculate_monthly_payment(calculator)]
    /\ last_event' = "calculate_monthly_payment"
    /\ CalcUnchanged

NextCalc == CallTotalRepayment \/ CallCalculateApr \/ CallCalculateMonthlyPayment

SpecCalc == InitCalc /\ [][NextCalc]_vars

----------------------------------------------------------------------------
(* Properties of the loader and the dashboard, checked under Spec *)

Uploaded == uploaded_file # NoValue

HasLoanDataSheet(file) == file.readable /\ "Loan Data" \in file.sheet_names

\* the labels of the promoted header row, trimmed
HeaderLabels(file) ==
    {Str(strip(file.grid[1][c].s)) : c \in {k \in 1..Len(file.grid[1]) : IsStr(file.grid[1][k])}}

MissingRequiredColumn(file) ==
    /\ HasLoanDataSheet(file)
    /\ file.grid # <<>>
    /\ \E k \in 1..Len(required_columns) : required_columns[k] \notin HeaderLabels(file)

PassesChecks(file) ==
    /\ HasLoanDataSheet(file)
    /\ file.grid # <<>>
    /\ \A k \in 1..Len(required_columns) : required_columns[k] \in HeaderLabels(file)

\* reading or parsing fails: unreadable file, no row to promote, or a numeric
\* label carried by two columns
ParseFails(file) ==
    \/ ~file.readable
    \/ /\ HasLoanDataSheet(file)
       /\ file.grid = <<>>
    \/ /\ PassesChecks(file)
       /\ \E k \in 1..Len(numeric_columns) : \E c, e \in 1..Len(file.grid[1]) :
             /\ c # e
             /\ StripLabel(file.grid[1][c]) = numeric_columns[k]
             /\ StripLabel(file.grid[1][e]) = numeric_columns[k]

NoDataState ==
    /\ loan_data = NoValue
    /\ script_error = NoValue
    /\ display.table = NoValue
    /\ display.details = NoDetails
    /\ display.chart = NoChart
    /\ calculator = NoValue

\* C1: a failed load (no 'Loan Data' sheet, a required column missing after
\* header promotion and trimming, or any other read/parse failure) returns None
\* with exactly one error report, no exception escapes load_loan_data, and the
\* script goes on in its no-data state.
C1_FailedLoadReturnsNone ==
    Uploaded =>
        /\ (~HasLoanDataSheet(uploaded_file) \/ MissingRequiredColumn(uploaded_file)
            \/ ParseFails(uploaded_file))
              => (NoDataState /\ Len(error_reports) = 1)
        /\ loan_data = NoValue => (NoDataState /\ Len(error_reports) = 1)
        /\ ~HasLoanDataSheet(uploaded_file) /\ uploaded_file.readable
              => error_reports = <<MsgNoSheet>>
        /\ MissingRequiredColumn(uploaded_file) /\ HeaderLabels(uploaded_file) # {}
              => error_reports = <<MsgColumns>>

C1_Witness ==
    /\ last_event = "upload"
    /\ Uploaded
    /\ ParseFails(uploaded_file)
    /\ uploaded_file.readable
    /\ uploaded_file.grid # <<>>
    /\ error_reports = <<MsgLoad>>
    /\ NoDataState

\* C2: every row of a returned dataset has a present value in each of the 6
\* required columns, and the five numeric columns hold numbers.
C2_NoMissingValues ==
    IsFrame(loan_data) =>
        /\ \A k \in 1..Len(required_columns) : required_columns[k] \in SeqSet(loan_data.columns)
        /\ \A r \in 1..Len(loan_data.rows) : \A c \in 1..Len(loan_data.columns) :
              /\ loan_data.columns[c] \in SeqSet(required_columns) => ~IsNull(loan_data.rows[r][c])
              /\ loan_data.columns[c] \in SeqSet(numeric_columns) => IsNum(loan_data.rows[r][c])

C2_Witness ==
    /\ Uploaded
    /\ uploaded_file.grid = <<StdHeader, RowTextAmount, RowPaid>>
    /\ IsFrame(loan_data)
    /\ Len(loan_data.rows) = 1

\* the cell of source row `row` under the first column whose trimmed label is `label`
SourceCell(file, row, label) ==
    row[CHOOSE c \in 1..Len(file.grid[1]) :
            /\ StripLabel(file.grid[1][c]) = label
            /\ \A e \in 1..(c - 1) : StripLabel(file.grid[1][e]) # label]

\* a numeric value: a number, or text that spells one
NumericValue(cell) ==
    \/ IsNum(cell)
    \/ IsStr(cell) /\ cell.s # <<>> /\ \A i \in 1..Len(cell.s) : IsDigit(cell.s[i])

ValidSourceRow(file, row) ==
    /\ ~IsNull(SourceCell(file, row, Col("Loan ID")))
    /\ \A k \in 1..Len(numeric_columns) : NumericValue(SourceCell(file, row, numeric_columns[k]))

\* the records the claim expects: the valid rows after the header, in order,
\* restricted to the 6 required columns
ExpectedRecords(file) ==
    LET valid == SortedSeq({r \in 2..Len(file.grid) : ValidSourceRow(file, file.grid[r])})
    IN  [i \in 1..Len(valid) |->
            [k \in 1..Len(required_columns) |->
                LET cell == SourceCell(file, file.grid[valid[i]], required_columns[k])
                IN  IF k = 1 THEN cell ELSE to_numeric(cell)]]

\* C3: for every sheet that passes the sheet and column checks the returned
\* dataset is exactly the valid rows after the promoted header, in source
\* order, with only the 6 required columns.
C3_ExactlyTheValidRows ==
    (Uploaded /\ PassesChecks(uploaded_file)) =>
        /\ IsFrame(loan_data)
        /\ loan_data.columns = required_columns
        /\ loan_data.rows = ExpectedRecords(uploaded_file)

\* the record that drives the display: the first row of the current dataset
\* whose Loan ID is the selected one
IsFirstMatch(r) ==
    /\ Cell(loan_data, loan_data.rows[r], Col("Loan ID")) = selected_loan_id
    /\ \A q \in 1..(r - 1) :
          Cell(loan_data, loan_data.rows[q], Col("Loan ID")) # selected_loan_id

DisplayedFrom(row) ==
    LET amount == Cell(loan_data, row, Col("Loan Amount ($C)"))
        interest == Cell(loan_data, row, Col("Interest ($C)"))
        fee == Cell(loan_data, row, Col("Late Fee & Interest ($C)"))
        duration == Cell(loan_data, row, Col("Duration"))
        total == PyAdd(PyAdd(amount, interest), fee)
        c == LoanCalculator(amount, interest, fee, duration)
    IN  /\ display.details.loan_amount = Format2(amount)
        /\ display.details.interest = Format2(interest)
        /\ display.details.late_fee = Format2(fee)
        /\ display.details.duration = duration
        /\ display.details.total_repayment = Format2(total)
        /\ display.details.apr = Format2(calculate_apr(c))
        /\ display.details.monthly_payment = Format2(calculate_monthly_payment(c))
        /\ display.chart.apr_values[1] = calculate_apr(c)
        /\ display.chart.labels[1] = selected_loan_id
        /\ calculator = c

\* C7: the displayed details, metrics and first chart bar all come from one
\* record of the current dataset, the first row whose Loan ID is the selected ID.
C7_DisplayFromSelectedRecord ==
    display.details # NoDetails =>
        /\ Uploaded
        /\ loan_data = LoadResults[uploaded_file].value
        /\ display.table = loan_data
        /\ \E r \in 1..Len(loan_data.rows) :
              IsFirstMatch(r) /\ DisplayedFrom(loan_data.rows[r])

C7_Witness ==
    /\ last_event = "select"
    /\ display.details # NoDetails
    /\ uploaded_file.grid = <<StdHeader, RowPaid, RowLong>>
    /\ selected_loan_id = Col("B")
    /\ display.details.monthly_payment = 52500

\* C8: a record whose late-fee cell is null stays in the dataset and among the
\* selectable Loan IDs, and is treated as having late_fee = 0.
C8_NullLateFeeKept ==
    (Uploaded /\ IsFrame(loan_data) /\ SelectboxRendered(loan_data)) =>
        \A r \in 2..Len(uploaded_file.grid) :
            LET row == uploaded_file.grid[r]
                id == SourceCell(uploaded_file, row, Col("Loan ID"))
            IN  (/\ ~IsNull(id)
                 /\ IsNull(SourceCell(uploaded_file, row, Col("Late Fee & Interest ($C)")))
                 /\ \A k \in {1, 2, 4, 5} :
                       NumericValue(SourceCell(uploaded_file, row, numeric_columns[k])))
                => /\ id \in SeqSet(loan_ids_of(loan_data))
                   /\ (selected_loan_id = id /\ display.details # NoDetails)
                         => display.details.late_fee = 0

----------------------------------------------------------------------------
(* Properties of LoanCalculator, checked under SpecCalc *)

IsSet(x) == x.t # "unset"

\* C4 as stated: calculate_apr() returns 0 exactly when loan_amount = 0 or
\* duration = 0, whatever the interest.
C4_ZeroExactlyWhenAmountOrDurationZero ==
    IsSet(metrics.apr) =>
        (metrics.apr = Num(0)
            <=> (calculator.loan_amount.n = 0 \/ calculator.duration.n = 0))

\* C4 amended: calculate_apr() returns 0 whenever loan_amount = 0 or
\* duration = 0; otherwise it returns 0 exactly when interest = 0.
C4_ZeroWhenAmountDurationOrInterestZero ==
    IsSet(metrics.apr) =>
        /\ (calculator.loan_amount.n = 0 \/ calculator.duration.n = 0) => metrics.apr = Num(0)
        /\ metrics.apr = Num(0)
              <=> (calculator.loan_amount.n = 0 \/ calculator.duration.n = 0
                   \/ calculator.interest.n = 0)

C4_Witness ==
    /\ IsSet(metrics.apr)
    /\ calculator.loan_amount.n # 0
    /\ calculator.duration.n # 0
    /\ calculator.interest.n = 0
    /\ metrics.apr = Num(0)

\* C5: calculate_monthly_payment() is total_repayment() / max(duration/30, 1):
\* the total itself for duration <= 30, total*30/duration beyond, never above
\* the total when the total is >= 0; total_repayment() is the sum of the three
\* amounts.
C5_MonthlyPayment ==
    LET a == calculator.loan_amount.n
        i == calculator.interest.n
        f == calculator.late_fee.n
        d == calculator.duration.n
        total == a + i + f
        m == metrics.monthly_payment
    IN  /\ IsSet(metrics.total_repayment) => metrics.total_repayment = Num(total)
        /\ IsSet(m) =>
              /\ IsNum(m)
              /\ d <= 30 => (m.n = total /\ m.d = 1)
              /\ d > 30 => m.n * d = 30 * total * m.d
              /\ total >= 0 => m.n <= total * m.d
              /\ (a = 500 /\ i = 75 /\ f = 25 /\ d = 14) => m = Num(600)
              /\ (a = 1000 /\ i = 50 /\ f = 0 /\ d = 60) => m = Num(525)

C5_Witness ==
    /\ calculator = LoanCalculator(Num(1000), Num(50), Num(0), Num(60))
    /\ metrics.total_repayment = Num(1050)
    /\ metrics.monthly_payment = Num(525)

\* C9: no LoanCalculator method raises, whatever the numeric inputs, and the
\* divisor max(duration/30, 1) of calculate_monthly_payment is at least 1.
C9_CalculatorNeverRaises ==
    /\ ~IsExc(metrics.total_repayment)
    /\ ~IsExc(metrics.apr)
    /\ ~IsExc(metrics.monthly_payment)
    /\ IsNum(monthly_divisor(calculator))
    /\ ~PyLess(monthly_divisor(calculator), Num(1))

C9_Witness ==
    /\ calculator.loan_amount.n < 0
    /\ calculator.duration.n = 0
    /\ IsNum(metrics.total_repayment)
    /\ IsNum(metrics.apr)
    /\ IsNum(metrics.monthly_payment)

----------------------------------------------------------------------------
(* Properties of the synchronizer, checked under SpecSync *)

\* C6: an edit of roi_percentage to X completes and sets initial_investment to
\* (X/100)*investment_amount in the same step; an edit of initial_investment to
\* Y sets roi_percentage to (Y/investment_amount)*100.
C6_EditRecomputesOtherField ==
    /\ last_event = "edit_roi_percentage" =>
          /\ callback_error = NoValue
          /\ HasKey(session_state, "investment_amount")
          /\ session_state["initial_investment"]
                = PyMul(PyDiv(session_state["roi_percentage"], Num(100)),
                        session_state["investment_amount"])
    /\ last_event = "edit_initial_investment" =>
          /\ callback_error = NoValue
          /\ HasKey(session_state, "investment_amount")
          /\ session_state["roi_percentage"]
                = PyMul(PyDiv(session_state["initial_investment"],
                              session_state["investment_amount"]), Num(100))

====
